---------------------------- MODULE Spec2Model ----------------------------
(***************************************************************************)
(* Model of the HTTP/1.1 client request encoder of tk-http                 *)
(* (src/client/encoder.rs): Encoder, WaitFlush, EncoderDone, the shared    *)
(* request-kind and connection-close signals, and the output buffer that   *)
(* is drained towards the socket.                                          *)
(*                                                                         *)
(* Bytes are one-character strings and byte strings are sequences of them, *)
(* so that case-insensitive comparison and the wire format are computed,   *)
(* not assumed.                                                            *)
(***************************************************************************)
EXTENDS Integers, Sequences, FiniteSets, TLC

(***************************************************************************)
(* Bounds of the model.                                                    *)
(***************************************************************************)
MaxLen == 2         \* largest Content-Length, write_body argument and chunked body
MaxHeaders == 1     \* most add_header / format_header calls of one request
MaxRest == 1        \* a drain attempt takes nothing, everything, or all but MaxRest bytes

(***************************************************************************)
(* Byte strings                                                            *)
(***************************************************************************)
SP == <<" ">>
CRLF == <<"\r", "\n">>
COLON_SP == <<":", " ">>

UpperCase == <<"A","B","C","D","E","F","G","H","I","J","K","L","M",
               "N","O","P","Q","R","S","T","U","V","W","X","Y","Z">>
LowerCase == <<"a","b","c","d","e","f","g","h","i","j","k","l","m",
               "n","o","p","q","r","s","t","u","v","w","x","y","z">>

to_ascii_lowercase(c) ==
    IF \E i \in 1..26 : UpperCase[i] = c
    THEN LowerCase[CHOOSE i \in 1..26 : UpperCase[i] = c]
    ELSE c

eq_ignore_ascii_case(a, b) ==
    /\ Len(a) = Len(b)
    /\ \A i \in 1..Len(a) : to_ascii_lowercase(a[i]) = to_ascii_lowercase(b[i])

S_HEAD == <<"H","E","A","D">>
S_Connection == <<"C","o","n","n","e","c","t","i","o","n">>
S_close == <<"c","l","o","s","e">>
S_ContentLength == <<"C","o","n","t","e","n","t","-","L","e","n","g","t","h">>
S_TransferEncoding ==
    <<"T","r","a","n","s","f","e","r","-","E","n","c","o","d","i","n","g">>
S_chunked == <<"c","h","u","n","k","e","d">>
S_HTTP11 == <<"H","T","T","P","/","1",".","1">>

Digits == <<"0","1","2","3","4","5","6","7","8","9","a","b","c","d","e","f">>

RECURSIVE Radix(_, _)
Radix(n, base) ==
    IF n < base THEN <<Digits[n + 1]>>
    ELSE Radix(n \div base, base) \o <<Digits[(n % base) + 1]>>

\* "{}" of an unsigned integer, and "{:x}"
Dec(n) == Radix(n, 10)
Hex(n) == Radix(n, 16)

\* Display of enums::Version
VersionText(version) == IF version = "Http11" THEN S_HTTP11 ELSE <<"?">>

(***************************************************************************)
(* headers::is_close: the value indicates "close".                         *)
(***************************************************************************)
is_close(value) == eq_ignore_ascii_case(value, S_close)

(***************************************************************************)
(* base_serializer::MessageState, the header/body state machine.  Each     *)
(* operation takes the message state and the output buffer and gives the   *)
(* new message state, the new buffer and the outcome: "Ok", a HeaderError, *)
(* or "Panic" for a fatal wrong-state call.                                *)
(***************************************************************************)
RequestStart == [st |-> "RequestStart", body |-> "none", length |-> 0, written |-> 0]

Outcome(m, buf, res) == [message |-> m, buf |-> buf, res |-> res]

ControlBytes == {"\r", "\n"}
IsFieldName(name) ==
    /\ Len(name) > 0
    /\ \A i \in 1..Len(name) : name[i] \notin ({" ", ":"} \cup ControlBytes)
HasControlByte(value) == \E i \in 1..Len(value) : value[i] \in ControlBytes
IsBodyLengthName(name) ==
    \/ eq_ignore_ascii_case(name, S_ContentLength)
    \/ eq_ignore_ascii_case(name, S_TransferEncoding)

MessageState_request_line(m, buf, method, path, version) ==
    IF m.st = "RequestStart"
    THEN Outcome([m EXCEPT !.st = "Headers"],
                 buf \o method \o SP \o path \o SP \o VersionText(version) \o CRLF,
                 "Ok")
    ELSE Outcome(m, buf, "Panic")

MessageState_add_header(m, buf, name, value) ==
    IF m.st # "Headers" THEN Outcome(m, buf, "Panic")
    ELSE IF ~IsFieldName(name) THEN Outcome(m, buf, "InvalidHeaderName")
    ELSE IF HasControlByte(value) THEN Outcome(m, buf, "InvalidHeaderValue")
    ELSE IF IsBodyLengthName(name) /\ m.body # "none"
         THEN Outcome(m, buf, "DuplicateBodyLength")
    ELSE Outcome(m, buf \o name \o COLON_SP \o value \o CRLF, "Ok")

MessageState_format_header(m, buf, name, value) ==
    MessageState_add_header(m, buf, name, value)

MessageState_add_length(m, buf, n) ==
    IF m.st # "Headers" THEN Outcome(m, buf, "Panic")
    ELSE IF m.body # "none" THEN Outcome(m, buf, "DuplicateBodyLength")
    ELSE Outcome([m EXCEPT !.body = "fixed", !.length = n],
                 buf \o S_ContentLength \o COLON_SP \o Dec(n) \o CRLF,
                 "Ok")

MessageState_add_chunked(m, buf) ==
    IF m.st # "Headers" THEN Outcome(m, buf, "Panic")
    ELSE IF m.body # "none" THEN Outcome(m, buf, "DuplicateBodyLength")
    ELSE Outcome([m EXCEPT !.body = "chunked"],
                 buf \o S_TransferEncoding \o COLON_SP \o S_chunked \o CRLF,
                 "Ok")

\* Ok(true): a request always supports a body
MessageState_done_headers(m, buf) ==
    IF m.st # "Headers" THEN Outcome(m, buf, "Panic")
    ELSE Outcome([m EXCEPT !.st = "Body"], buf \o CRLF, "Ok")

MessageState_write_body(m, buf, data) ==
    IF m.st # "Body" \/ m.body = "none" THEN Outcome(m, buf, "Panic")
    ELSE IF m.body = "fixed"
    THEN IF m.written + Len(data) > m.length
         THEN Outcome(m, buf, "Panic")
         ELSE Outcome([m EXCEPT !.written = @ + Len(data)], buf \o data, "Ok")
    ELSE Outcome([m EXCEPT !.written = @ + Len(data)],
                 buf \o Hex(Len(data)) \o CRLF \o data \o CRLF,
                 "Ok")

LastChunk == <<"0">> \o CRLF \o CRLF

MessageState_done(m, buf) ==
    IF m.st # "Body" THEN Outcome(m, buf, "Panic")
    ELSE IF m.body = "fixed" /\ m.written # m.length THEN Outcome(m, buf, "Panic")
    ELSE IF m.body = "chunked"
         THEN Outcome([m EXCEPT !.st = "Done"], buf \o LastChunk, "Ok")
    ELSE Outcome([m EXCEPT !.st = "Done"], buf, "Ok")

(***************************************************************************)
(* RequestState, the values of the shared In-flight Request Kind signal.   *)
(***************************************************************************)
Empty == 0
StartedHead == 1
StartedNormal == 2

(***************************************************************************)
(* Inputs of the calls.                                                    *)
(***************************************************************************)
Methods == { <<"G","E","T">>, S_HEAD, <<"H","e","a","d">> }
Paths == { <<"/">> }
Versions == { "Http11" }
S_Host == <<"H","o","s","t">>
HeaderInputs ==
    { <<<<"c","o","n","n","e","c","t","i","o","n">>, <<"C","l","o","s","e">> >>,
      <<S_Connection, <<"k","e","e","p","-","a","l","i","v","e">> >>,
      <<S_Host, S_close>> }
FormatInputs == { <<S_Connection, 1>>, <<S_Host, 1>> }
Lengths == { 0, MaxLen }
Letters == <<"a","b","c","d","e","f">>
\* the two chunks of the chunked scenario, "abc" and then "de"
ScenarioChunks == << SubSeq(Letters, 1, 3), SubSeq(Letters, 4, 5) >>
BodyData == { SubSeq(Letters, 1, n) : n \in 0..MaxLen }
               \cup { ScenarioChunks[1], ScenarioChunks[2] }
Watermarks == { 0, 1, 2 }
\* a byte still queued by an earlier request of the connection (pipelining)
Leftover == <<"#">>

VARIABLES
    message,       \* Encoder.message: MessageState
    out_buf,       \* Encoder.buf.out_buf, the bytes not yet written to the socket
    sent,          \* the bytes the socket has accepted, in order
    start,         \* offset in the connection's byte stream where this request begins
    state,         \* Encoder.state: the shared In-flight Request Kind
    close_signal,  \* Encoder.close_signal: the shared Connection-Close Flag
    encoder,       \* "Live": the caller holds the Encoder; "Moved": it was consumed
    waitflush,     \* WaitFlush(Option<Encoder>, watermark)
    encoder_done,  \* an EncoderDone was returned
    panicked,      \* the request-writing task has panicked
    last,          \* the last call of the request-writing task and what it returned
    reader,        \* the request kinds the response-reading activity has read last
    headers        \* number of header calls made

vars == <<message, out_buf, sent, start, state, close_signal, encoder, waitflush,
          encoder_done, panicked, last, reader, headers>>

\* what a call returned: its result and, where it returns a number, the number
Returned(res, val) == [res |-> res, val |-> val]
NoValue == <<>>
\* the message of the panic of Encoder::request_line
WrongState == "Request line in wrong state"

\* the whole stream of bytes handed to the connection, drained or not
Stream == sent \o out_buf

(***************************************************************************)
(* new(): a fresh Encoder over the connection's buffer and signals.        *)
(***************************************************************************)
new ==
    /\ message = RequestStart
    /\ out_buf = Leftover
    /\ sent = <<>>
    /\ start = Len(out_buf)
    /\ state \in {Empty, StartedHead, StartedNormal}
    /\ close_signal = FALSE
    /\ encoder = "Live"
    /\ waitflush = [holds |-> "None", watermark |-> 0]
    /\ encoder_done = FALSE
    /\ panicked = FALSE
    /\ last = Returned("Ok", NoValue)
    /\ reader = <<>>
    /\ headers = 0

Init == new

Callable == encoder = "Live" /\ ~panicked

\* The effect of a call that only delegates to the message state.
Delegate(r, val) ==
    /\ message' = r.message
    /\ out_buf' = r.buf
    /\ panicked' = (r.res = "Panic")
    /\ last' = Returned(r.res, IF r.res = "Ok" THEN val ELSE NoValue)

(***************************************************************************)
(* Encoder::request_line.  The buffer is borrowed by the call from the     *)
(* append to the swap, so no drain happens in between.                     *)
(***************************************************************************)
\* request_line comparing the method with "HEAD" letter for letter
request_line_case_sensitive(method, path, version) ==
    /\ Callable
    /\ LET r == MessageState_request_line(message, out_buf, method, path, version)
           nstatus == IF method = S_HEAD THEN StartedHead ELSE StartedNormal
       IN IF r.res = "Panic"
          THEN /\ panicked' = TRUE
               /\ last' = Returned("Panic", NoValue)
               /\ UNCHANGED <<message, out_buf, state>>
          ELSE /\ message' = r.message
               /\ out_buf' = r.buf
               /\ state' = nstatus
               /\ panicked' = (state # 0)
               /\ last' = Returned(IF state # 0 THEN WrongState ELSE "Ok", NoValue)
    /\ UNCHANGED <<sent, start, close_signal, encoder, waitflush, encoder_done,
                   reader, headers>>

\* request_line publishing the kind of HEAD requests only
request_line_head_only(method, path, version) ==
    /\ Callable
    /\ LET r == MessageState_request_line(message, out_buf, method, path, version)
       IN IF r.res = "Panic"
          THEN /\ panicked' = TRUE
               /\ last' = Returned("Panic", NoValue)
               /\ UNCHANGED <<message, out_buf, state>>
          ELSE /\ message' = r.message
               /\ out_buf' = r.buf
               /\ state' = IF eq_ignore_ascii_case(method, S_HEAD)
                           THEN StartedHead ELSE state
               /\ panicked' = (state # 0)
               /\ last' = Returned(IF state # 0 THEN WrongState ELSE "Ok", NoValue)
    /\ UNCHANGED <<sent, start, close_signal, encoder, waitflush, encoder_done,
                   reader, headers>>

\* request_line looking at the signal before it writes anything
request_line_check_first(method, path, version) ==
    /\ Callable
    /\ LET r == MessageState_request_line(message, out_buf, method, path, version)
           nstatus == IF eq_ignore_ascii_case(method, S_HEAD)
                      THEN StartedHead ELSE StartedNormal
       IN IF state # 0
          THEN /\ panicked' = TRUE
               /\ last' = Returned(WrongState, NoValue)
               /\ UNCHANGED <<message, out_buf, state>>
          ELSE IF r.res = "Panic"
          THEN /\ panicked' = TRUE
               /\ last' = Returned("Panic", NoValue)
               /\ UNCHANGED <<message, out_buf, state>>
          ELSE /\ message' = r.message
               /\ out_buf' = r.buf
               /\ state' = nstatus
               /\ panicked' = FALSE
               /\ last' = Returned("Ok", NoValue)
    /\ UNCHANGED <<sent, start, close_signal, encoder, waitflush, encoder_done,
                   reader, headers>>

\* request_line publishing the kind before it hands the line to the message
request_line_swap_first(method, path, version) ==
    /\ Callable
    /\ LET r == MessageState_request_line(message, out_buf, method, path, version)
           nstatus == IF eq_ignore_ascii_case(method, S_HEAD)
                      THEN StartedHead ELSE StartedNormal
       IN /\ state' = nstatus
          /\ IF r.res = "Panic"
             THEN /\ panicked' = TRUE
                  /\ last' = Returned("Panic", NoValue)
                  /\ UNCHANGED <<message, out_buf>>
             ELSE /\ message' = r.message
                  /\ out_buf' = r.buf
                  /\ panicked' = (state # 0)
                  /\ last' = Returned(IF state # 0 THEN WrongState ELSE "Ok", NoValue)
    /\ UNCHANGED <<sent, start, close_signal, encoder, waitflush, encoder_done,
                   reader, headers>>

request_line(method, path, version) ==
    /\ Callable
    /\ LET r == MessageState_request_line(message, out_buf, method, path, version)
           nstatus == IF eq_ignore_ascii_case(method, S_HEAD)
                      THEN StartedHead ELSE StartedNormal
       IN IF r.res = "Panic"
          THEN /\ panicked' = TRUE
               /\ last' = Returned("Panic", NoValue)
               /\ UNCHANGED <<message, out_buf, state>>
          ELSE /\ message' = r.message
               /\ out_buf' = r.buf
               /\ state' = nstatus
               /\ panicked' = (state # 0)
               /\ last' = Returned(IF state # 0 THEN WrongState ELSE "Ok", NoValue)
    /\ UNCHANGED <<sent, start, close_signal, encoder, waitflush, encoder_done,
                   reader, headers>>

(***************************************************************************)
(* Encoder::add_header                                                     *)
(***************************************************************************)
\* add_header looking at the value only
add_header_any_name(name, value) ==
    /\ Callable
    /\ headers < MaxHeaders
    /\ headers' = headers + 1
    /\ close_signal' = IF is_close(value) THEN TRUE ELSE close_signal
    /\ Delegate(MessageState_add_header(message, out_buf, name, value), NoValue)
    /\ UNCHANGED <<sent, start, state, encoder, waitflush, encoder_done, reader>>

\* add_header storing the close flag only once the header was accepted
add_header_validate_first(name, value) ==
    /\ Callable
    /\ headers < MaxHeaders
    /\ headers' = headers + 1
    /\ LET r == MessageState_add_header(message, out_buf, name, value)
       IN /\ close_signal' =
                IF /\ r.res = "Ok"
                   /\ eq_ignore_ascii_case(name, S_Connection) /\ is_close(value)
                THEN TRUE ELSE close_signal
          /\ Delegate(r, NoValue)
    /\ UNCHANGED <<sent, start, state, encoder, waitflush, encoder_done,
                   reader>>

add_header(name, value) ==
    /\ Callable
    /\ headers < MaxHeaders
    /\ headers' = headers + 1
    /\ close_signal' =
          IF eq_ignore_ascii_case(name, S_Connection) /\ is_close(value)
          THEN TRUE ELSE close_signal
    /\ Delegate(MessageState_add_header(message, out_buf, name, value), NoValue)
    /\ UNCHANGED <<sent, start, state, encoder, waitflush, encoder_done,
                   reader>>

(***************************************************************************)
(* Encoder::format_header: unimplemented!() for a Connection header.       *)
(***************************************************************************)
format_header(name, value) ==
    /\ Callable
    /\ headers < MaxHeaders
    /\ headers' = headers + 1
    /\ IF eq_ignore_ascii_case(name, S_Connection)
       THEN /\ panicked' = TRUE
            /\ last' = Returned("Panic", NoValue)
            /\ UNCHANGED <<message, out_buf>>
       ELSE Delegate(MessageState_format_header(message, out_buf, name, Dec(value)), NoValue)
    /\ UNCHANGED <<sent, start, state, close_signal, encoder, waitflush,
                   encoder_done, reader>>

(***************************************************************************)
(* Encoder::add_length, Encoder::add_chunked, Encoder::done_headers        *)
(***************************************************************************)
\* add_length dropping the result of the message state
add_length_ignore_error(n) ==
    /\ Callable
    /\ LET r == MessageState_add_length(message, out_buf, n)
       IN Delegate([r EXCEPT !.res = IF @ = "Panic" THEN @ ELSE "Ok"], NoValue)
    /\ UNCHANGED <<sent, start, state, close_signal, encoder, waitflush,
                   encoder_done, reader, headers>>

add_length(n) ==
    /\ Callable
    /\ Delegate(MessageState_add_length(message, out_buf, n), NoValue)
    /\ UNCHANGED <<sent, start, state, close_signal, encoder, waitflush,
                   encoder_done, reader, headers>>

add_chunked ==
    /\ Callable
    /\ Delegate(MessageState_add_chunked(message, out_buf), NoValue)
    /\ UNCHANGED <<sent, start, state, close_signal, encoder, waitflush,
                   encoder_done, reader, headers>>

done_headers ==
    /\ Callable
    /\ Delegate(MessageState_done_headers(message, out_buf), NoValue)
    /\ UNCHANGED <<sent, start, state, close_signal, encoder, waitflush,
                   encoder_done, reader, headers>>

(***************************************************************************)
(* Encoder::write_body, and io::Write::write which forwards to it.  A      *)
(* chunked body is written with non-empty data, up to MaxLen bytes, or    *)
(* with the chunks of the scenario in their order: "de" follows a write of *)
(* "abc".                                                                  *)
(***************************************************************************)
EndsWith(seq, tail) ==
    /\ Len(tail) <= Len(seq)
    /\ SubSeq(seq, Len(seq) - Len(tail) + 1, Len(seq)) = tail

BodyInput(data) ==
    (message.st = "Body" /\ message.body = "chunked")
        => /\ Len(data) > 0
           /\ \/ message.written + Len(data) <= MaxLen
              \/ message.written = 0 /\ data = ScenarioChunks[1]
              \/ /\ data = ScenarioChunks[2]
                 /\ message.written = Len(ScenarioChunks[1])
                 /\ EndsWith(Stream, ScenarioChunks[1] \o CRLF)

\* write_body appending to the buffer without the message state
write_body_unchecked(data) ==
    /\ Callable
    /\ BodyInput(data)
    /\ out_buf' = out_buf \o data
    /\ last' = Returned("Ok", NoValue)
    /\ UNCHANGED <<message, panicked>>
    /\ UNCHANGED <<sent, start, state, close_signal, encoder, waitflush,
                   encoder_done, reader, headers>>

\* write_body appending the bytes as they are when no framing is declared
write_body_unframed(data) ==
    /\ Callable
    /\ BodyInput(data)
    /\ IF message.body = "none"
       THEN /\ out_buf' = out_buf \o data
            /\ last' = Returned("Ok", NoValue)
            /\ UNCHANGED <<message, panicked>>
       ELSE Delegate(MessageState_write_body(message, out_buf, data), NoValue)
    /\ UNCHANGED <<sent, start, state, close_signal, encoder, waitflush,
                   encoder_done, reader, headers>>

\* write_body putting its bytes in front of the bytes already buffered
write_body_front(data) ==
    /\ Callable
    /\ BodyInput(data)
    /\ LET r == MessageState_write_body(message, <<>>, data)
       IN Delegate([r EXCEPT !.buf = @ \o out_buf], NoValue)
    /\ UNCHANGED <<sent, start, state, close_signal, encoder, waitflush,
                   encoder_done, reader, headers>>

write_body(data) ==
    /\ Callable
    /\ BodyInput(data)
    /\ Delegate(MessageState_write_body(message, out_buf, data), NoValue)
    /\ UNCHANGED <<sent, start, state, close_signal, encoder, waitflush,
                   encoder_done, reader, headers>>

\* io::Write::write appending to the buffer itself
write_raw(data) ==
    /\ Callable
    /\ BodyInput(data)
    /\ out_buf' = out_buf \o data
    /\ message' = [message EXCEPT !.written = @ + Len(data)]
    /\ last' = Returned("Ok", <<Len(data)>>)
    /\ UNCHANGED <<sent, start, state, close_signal, encoder, waitflush,
                   encoder_done, panicked, reader, headers>>

\* io::Write::write reporting the bytes as written without forwarding them
write_discard(data) ==
    /\ Callable
    /\ BodyInput(data)
    /\ last' = Returned("Ok", <<Len(data)>>)
    /\ UNCHANGED <<message, out_buf, panicked>>
    /\ UNCHANGED <<sent, start, state, close_signal, encoder, waitflush,
                   encoder_done, reader, headers>>

write(data) ==
    /\ Callable
    /\ BodyInput(data)
    /\ Delegate(MessageState_write_body(message, out_buf, data), <<Len(data)>>)
    /\ UNCHANGED <<sent, start, state, close_signal, encoder, waitflush,
                   encoder_done, reader, headers>>

\* io::Write::flush does nothing
io_flush ==
    /\ Callable
    /\ last' = Returned("Ok", NoValue)
    /\ UNCHANGED <<message, out_buf, sent, start, state, close_signal, encoder,
                   waitflush, encoder_done, panicked, reader, headers>>

(***************************************************************************)
(* Encoder::done consumes the Encoder and returns the EncoderDone.         *)
(***************************************************************************)
\* done clearing the close flag for the next request
done_reset_close ==
    /\ Callable
    /\ LET r == MessageState_done(message, out_buf)
       IN /\ Delegate(r, NoValue)
          /\ encoder' = IF r.res = "Panic" THEN encoder ELSE "Moved"
          /\ encoder_done' = (r.res # "Panic")
    /\ close_signal' = FALSE
    /\ UNCHANGED <<sent, start, state, waitflush, reader, headers>>

\* done returning the EncoderDone without finishing the message
done_unchecked ==
    /\ Callable
    /\ encoder' = "Moved"
    /\ encoder_done' = TRUE
    /\ last' = Returned("Ok", NoValue)
    /\ UNCHANGED <<message, out_buf, panicked>>
    /\ UNCHANGED <<sent, start, state, close_signal, waitflush, reader, headers>>

\* done appending a last chunk of its own after the message state's
done_double ==
    /\ Callable
    /\ LET r == MessageState_done(message, out_buf)
           twice == IF r.res = "Ok" /\ message.body = "chunked"
                    THEN [r EXCEPT !.buf = @ \o LastChunk] ELSE r
       IN /\ Delegate(twice, NoValue)
          /\ encoder' = IF r.res = "Panic" THEN encoder ELSE "Moved"
          /\ encoder_done' = (r.res # "Panic")
    /\ UNCHANGED <<sent, start, state, close_signal, waitflush, reader, headers>>

done ==
    /\ Callable
    /\ LET r == MessageState_done(message, out_buf)
       IN /\ Delegate(r, NoValue)
          /\ encoder' = IF r.res = "Panic" THEN encoder ELSE "Moved"
          /\ encoder_done' = (r.res # "Panic")
    /\ UNCHANGED <<sent, start, state, close_signal, waitflush, reader,
                   headers>>

(***************************************************************************)
(* WriteBuf::flush: one non-blocking drain attempt.  The socket takes k    *)
(* bytes from the front of the buffer; the attempt may end in an io::Error.*)
(***************************************************************************)
Drains == { k \in 0..Len(out_buf) : k = 0 \/ Len(out_buf) - k \in {0, MaxRest} }

WriteBuf_flush(k) ==
    /\ sent' = sent \o SubSeq(out_buf, 1, k)
    /\ out_buf' = SubSeq(out_buf, k + 1, Len(out_buf))

flush(k, err) ==
    /\ Callable
    /\ WriteBuf_flush(k)
    /\ last' = Returned(IF err THEN "IoError" ELSE "Ok", NoValue)
    /\ UNCHANGED <<message, start, state, close_signal, encoder, waitflush,
                   encoder_done, panicked, reader, headers>>

\* bytes_buffered counting the bytes already sent as well
bytes_buffered_total ==
    /\ Callable
    /\ last' = Returned("Ok", <<Len(sent) + Len(out_buf)>>)
    /\ UNCHANGED <<message, out_buf, sent, start, state, close_signal, encoder,
                   waitflush, encoder_done, panicked, reader, headers>>

bytes_buffered ==
    /\ Callable
    /\ last' = Returned("Ok", <<Len(out_buf)>>)
    /\ UNCHANGED <<message, out_buf, sent, start, state, close_signal, encoder,
                   waitflush, encoder_done, panicked, reader, headers>>

(***************************************************************************)
(* Encoder::wait_flush moves the Encoder into a WaitFlush; WaitFlush::poll *)
(* is one resumption of it.  A WaitFlush that has yielded its Encoder      *)
(* never reads its watermark again, so Taken does not carry it.            *)
(***************************************************************************)
Taken == [holds |-> "Taken", watermark |-> 0]

\* wait_flush leaving a usable Encoder with the caller
wait_flush_keep(watermark) ==
    /\ Callable
    /\ waitflush' = [holds |-> "Some", watermark |-> watermark]
    /\ last' = Returned("Ok", NoValue)
    /\ UNCHANGED <<message, out_buf, sent, start, state, close_signal, encoder,
                   encoder_done, panicked, reader, headers>>

wait_flush(watermark) ==
    /\ Callable
    /\ encoder' = "Moved"
    /\ waitflush' = [holds |-> "Some", watermark |-> watermark]
    /\ last' = Returned("Ok", NoValue)
    /\ UNCHANGED <<message, out_buf, sent, start, state, close_signal,
                   encoder_done, panicked, reader, headers>>

\* poll comparing with <= instead of <
poll_le(k, err) ==
    /\ ~panicked
    /\ waitflush.holds # "None"
    /\ IF waitflush.holds = "Taken"
       THEN /\ k = 0 /\ ~err
            /\ panicked' = TRUE
            /\ last' = Returned("Panic", NoValue)
            /\ UNCHANGED <<out_buf, sent, encoder, waitflush>>
       ELSE /\ WriteBuf_flush(k)
            /\ LET bytes_left == Len(out_buf')
                   ready == ~err /\ bytes_left <= waitflush.watermark
               IN /\ encoder' = IF ready THEN "Live" ELSE encoder
                  /\ waitflush' = IF ready THEN Taken ELSE waitflush
                  /\ last' = Returned(IF err THEN "IoError"
                                      ELSE IF ready THEN "Ready" ELSE "NotReady",
                                      NoValue)
            /\ UNCHANGED panicked
    /\ UNCHANGED <<message, start, state, close_signal, encoder_done, reader, headers>>

\* poll comparing without a drain attempt of its own
poll_no_drain(k, err) ==
    /\ ~panicked
    /\ waitflush.holds # "None"
    /\ IF waitflush.holds = "Taken"
       THEN /\ k = 0 /\ ~err
            /\ panicked' = TRUE
            /\ last' = Returned("Panic", NoValue)
            /\ UNCHANGED <<encoder, waitflush>>
       ELSE /\ LET bytes_left == Len(out_buf)
                   ready == ~err /\ bytes_left < waitflush.watermark
               IN /\ encoder' = IF ready THEN "Live" ELSE encoder
                  /\ waitflush' = IF ready THEN Taken ELSE waitflush
                  /\ last' = Returned(IF err THEN "IoError"
                                      ELSE IF ready THEN "Ready" ELSE "NotReady",
                                      NoValue)
            /\ UNCHANGED panicked
    /\ UNCHANGED <<out_buf, sent>>
    /\ UNCHANGED <<message, start, state, close_signal, encoder_done, reader, headers>>

\* poll yielding the Encoder also whenever the buffer is empty
poll_ready_when_empty(k, err) ==
    /\ ~panicked
    /\ waitflush.holds # "None"
    /\ IF waitflush.holds = "Taken"
       THEN /\ k = 0 /\ ~err
            /\ panicked' = TRUE
            /\ last' = Returned("Panic", NoValue)
            /\ UNCHANGED <<out_buf, sent, encoder, waitflush>>
       ELSE /\ WriteBuf_flush(k)
            /\ LET bytes_left == Len(out_buf')
                   ready == ~err /\ (bytes_left < waitflush.watermark \/ bytes_left = 0)
               IN /\ encoder' = IF ready THEN "Live" ELSE encoder
                  /\ waitflush' = IF ready THEN Taken ELSE waitflush
                  /\ last' = Returned(IF err THEN "IoError"
                                      ELSE IF ready THEN "Ready" ELSE "NotReady",
                                      NoValue)
            /\ UNCHANGED panicked
    /\ UNCHANGED <<message, start, state, close_signal, encoder_done, reader, headers>>

poll(k, err) ==
    /\ ~panicked
    /\ waitflush.holds # "None"
    /\ IF waitflush.holds = "Taken"
       THEN \* expect("future is polled twice")
            /\ k = 0 /\ ~err
            /\ panicked' = TRUE
            /\ last' = Returned("Panic", NoValue)
            /\ UNCHANGED <<out_buf, sent, encoder, waitflush>>
       ELSE /\ WriteBuf_flush(k)
            /\ LET bytes_left == Len(out_buf')
                   ready == ~err /\ bytes_left < waitflush.watermark
               IN /\ encoder' = IF ready THEN "Live" ELSE encoder
                  /\ waitflush' = IF ready THEN Taken ELSE waitflush
                  /\ last' = Returned(IF err THEN "IoError"
                                      ELSE IF ready THEN "Ready" ELSE "NotReady",
                                      NoValue)
            /\ UNCHANGED panicked
    /\ UNCHANGED <<message, start, state, close_signal, encoder_done, reader, headers>>

(***************************************************************************)
(* get_inner: the connection takes the buffer back from the EncoderDone    *)
(* and keeps draining it.                                                  *)
(***************************************************************************)
driver_flush(k) ==
    /\ encoder_done /\ ~panicked
    /\ WriteBuf_flush(k)
    /\ UNCHANGED <<message, start, state, close_signal, encoder, waitflush,
                   encoder_done, panicked, last, reader, headers>>

(***************************************************************************)
(* The response-reading activity.  It reads the request kind once bytes of *)
(* the response arrive, which needs bytes of the request on the socket.    *)
(***************************************************************************)
reader_kind ==
    /\ Len(sent) > start
    /\ reader' = <<state>>
    /\ UNCHANGED <<message, out_buf, sent, start, state, close_signal, encoder,
                   waitflush, encoder_done, panicked, last, headers>>

Next ==
    \/ \E m \in Methods, p \in Paths, v \in Versions : request_line(m, p, v)
    \/ \E h \in HeaderInputs : add_header(h[1], h[2])
    \/ \E h \in FormatInputs : format_header(h[1], h[2])
    \/ \E n \in Lengths : add_length(n)
    \/ add_chunked
    \/ done_headers
    \/ \E d \in BodyData : write_body(d)
    \/ \E d \in BodyData : write(d)
    \/ io_flush
    \/ done
    \/ \E k \in Drains, err \in BOOLEAN : flush(k, err)
    \/ bytes_buffered
    \/ \E w \in Watermarks : wait_flush(w)
    \/ \E k \in Drains, err \in BOOLEAN : poll(k, err)
    \/ \E k \in Drains : driver_flush(k)
    \/ reader_kind

Spec == Init /\ [][Next]_vars

TypeOK ==
    /\ message.st \in {"RequestStart", "Headers", "Body", "Done"}
    /\ message.body \in {"none", "fixed", "chunked"}
    /\ state \in {Empty, StartedHead, StartedNormal}
    /\ close_signal \in BOOLEAN
    /\ encoder \in {"Live", "Moved"}
    /\ waitflush.holds \in {"None", "Some", "Taken"}

(***************************************************************************)
(* What the peer sees: the bytes of this request on the connection.        *)
(***************************************************************************)
MatchAt(pat, seq, i) == \A j \in 1..Len(pat) : seq[i + j - 1] = pat[j]

Matches(pat, seq) == { i \in 1..(Len(seq) - Len(pat) + 1) : MatchAt(pat, seq, i) }

IndexOf(pat, seq) ==
    LET hits == Matches(pat, seq)
    IN IF hits = {} THEN 0 ELSE CHOOSE i \in hits : \A j \in hits : i <= j

Occurrences(pat, seq) == Cardinality(Matches(pat, seq))

WireRequest == SubSeq(Stream, start + 1, Len(Stream))

WireMethod ==
    LET i == IndexOf(SP, WireRequest)
    IN IF i = 0 THEN <<>> ELSE SubSeq(WireRequest, 1, i - 1)

\* the bytes after the blank line that ends the headers
WireBody ==
    LET i == IndexOf(CRLF \o CRLF, WireRequest)
    IN IF i = 0 THEN <<>> ELSE SubSeq(WireRequest, i + 4, Len(WireRequest))

HeadMethods == { <<"H","E","A","D">>, <<"H","e","a","d">> }
KindOf(method) == IF method \in HeadMethods THEN StartedHead ELSE StartedNormal

CloseHeader == <<"c","o","n","n","e","c","t","i","o","n",":"," ","C","l","o","s","e","\r","\n">>
IsCloseInput(h) == h = << <<"c","o","n","n","e","c","t","i","o","n">>, <<"C","l","o","s","e">> >>

\* number of handles through which bytes can be appended to the buffer
Writers ==
    (IF encoder = "Live" THEN 1 ELSE 0) + (IF waitflush.holds = "Some" THEN 1 ELSE 0)

FramingStep == (\E n \in Lengths : add_length(n)) \/ add_chunked
BodyStep(d) == write_body(d) \/ write(d)
PollStep == \E k \in Drains, err \in BOOLEAN : poll(k, err)

(***************************************************************************)
(* C1: while the headers are open and a body-framing strategy is already   *)
(* chosen, every add_length and every add_chunked returns the recoverable  *)
(* duplicate-body-length HeaderError and leaves the output buffer, the     *)
(* bytes already sent and the chosen strategy exactly as they were.        *)
(***************************************************************************)
C1_DuplicateFramingRejected ==
    [][ (message.st = "Headers" /\ message.body # "none" /\ FramingStep)
        => /\ last'.res = "DuplicateBodyLength"
           /\ ~panicked'
           /\ out_buf' = out_buf
           /\ sent' = sent
           /\ message' = message ]_vars

C1_Witness ==
    /\ last.res = "DuplicateBodyLength"
    /\ message.st = "Headers"
    /\ message.body = "chunked"

(***************************************************************************)
(* C2: with a fixed-length strategy of n bytes the body bytes of the       *)
(* request on the connection never number more than n, and a write_body    *)
(* (or io::Write::write) whose data would exceed n is fatal and appends    *)
(* nothing.                                                                *)
(***************************************************************************)
C2_FixedBodyWithinLength ==
    /\ [](message.body = "fixed" =>
            /\ Len(WireBody) <= message.length
            /\ Len(WireBody) = message.written)
    /\ [][ \A d \in BodyData :
            (message.st = "Body" /\ message.body = "fixed"
                /\ message.written + Len(d) > message.length /\ BodyStep(d))
            => (panicked' /\ last'.res = "Panic" /\ out_buf' = out_buf
                /\ sent' = sent /\ message' = message) ]_vars

C2_Witness ==
    /\ panicked
    /\ message.st = "Body"
    /\ message.body = "fixed"
    /\ message.length = MaxLen
    /\ message.written = 1
    /\ Len(WireBody) = 1

(***************************************************************************)
(* C3: a fixed-length request reaches the terminal EncoderDone only with   *)
(* exactly the declared number of body bytes written; done() with fewer    *)
(* bytes is fatal and returns no EncoderDone.                              *)
(***************************************************************************)
C3_DoneOnlyWhenLengthSatisfied ==
    /\ []((encoder_done /\ message.body = "fixed") =>
            /\ message.st = "Done"
            /\ message.written = message.length
            /\ Len(WireBody) = message.length)
    /\ [][ (message.st = "Body" /\ message.body = "fixed"
                /\ message.written < message.length /\ done)
            => (panicked' /\ ~encoder_done' /\ encoder' = encoder
                /\ message' = message /\ out_buf' = out_buf) ]_vars

C3_Witness ==
    /\ encoder_done
    /\ message.body = "fixed"
    /\ message.length = MaxLen
    /\ Len(WireBody) = MaxLen

C5_CloseFlagSetByCloseHeader ==
    [][ \A h \in HeaderInputs :
          add_header(h[1], h[2])
          => /\ IsCloseInput(h) => close_signal'
             /\ ~IsCloseInput(h) => (close_signal' = close_signal) ]_vars

C5_Witness ==
    /\ close_signal
    /\ Occurrences(CloseHeader, WireRequest) = 1

C7_KindPublishedOnce ==
    [][ /\ \A m \in Methods, p \in Paths, v \in Versions :
              (message.st = "RequestStart" /\ request_line(m, p, v))
              => state' = KindOf(m)
        /\ (state' # state) => (message.st = "RequestStart" /\ message'.st = "Headers")
        /\ (message.st # "RequestStart") => (state' = state) ]_vars

C7_Witness ==
    /\ state = StartedHead
    /\ WireMethod = <<"H","e","a","d">>
    /\ encoder_done
    /\ ~panicked

(***************************************************************************)
(* C8 as claimed: a resumption of the WaitFlush at which fewer than W      *)
(* bytes are buffered yields the Encoder back.                             *)
(***************************************************************************)
C8_YieldsWheneverBelowWatermark ==
    [][ (waitflush.holds = "Some" /\ Len(out_buf) < waitflush.watermark /\ PollStep)
        => encoder' = "Live" ]_vars

(***************************************************************************)
(* C8 amended: a resumption of the WaitFlush whose drain attempt reports   *)
(* no I/O error yields the Encoder back if and only if, after the drain    *)
(* attempt, fewer than W bytes are buffered, and otherwise stays pending;  *)
(* one whose drain attempt fails returns the error and keeps the Encoder.  *)
(* Whenever the Encoder is yielded back the buffer holds fewer than W      *)
(* bytes.                                                                  *)
(***************************************************************************)
C8_YieldsBelowWatermarkUnlessIoError ==
    [][ /\ (waitflush.holds = "Some" /\ PollStep) =>
              /\ last'.res \in {"Ready", "NotReady", "IoError"}
              /\ (last'.res = "Ready") <=>
                    (last'.res # "IoError" /\ Len(out_buf') < waitflush.watermark)
              /\ (last'.res = "Ready") =>
                    (encoder' = "Live" /\ waitflush'.holds = "Taken")
              /\ (last'.res # "Ready") =>
                    (encoder' = "Moved" /\ waitflush' = waitflush)
        /\ (encoder = "Moved" /\ encoder' = "Live") =>
              (waitflush.holds = "Some" /\ Len(out_buf') < waitflush.watermark) ]_vars

C8_Witness ==
    /\ last.res = "Ready"
    /\ encoder = "Live"
    /\ waitflush.holds = "Taken"
    /\ Len(out_buf) = 1
    /\ Len(sent) > start

(***************************************************************************)
(* C9: at most one handle able to append to the Output Buffer exists, and  *)
(* once done() has returned the EncoderDone none exists and no byte is     *)
(* appended any more.                                                      *)
(***************************************************************************)
C9_SingleWriter ==
    /\ [](Writers <= 1 /\ (encoder_done => Writers = 0))
    /\ [][encoder_done => (Stream' = Stream /\ encoder_done')]_vars

C9_Witness ==
    /\ encoder_done
    /\ waitflush.holds = "Taken"
    /\ out_buf = <<>>
    /\ message.written > 0

(***************************************************************************)
(* C10: whenever a byte of this request has reached the socket, the        *)
(* In-flight Request Kind is published and is the kind of the request's    *)
(* method, and a reader that read it after that has read this kind.        *)
(***************************************************************************)
C10_KindPublishedBeforeDrain ==
    /\ (Len(sent) > start) => (state # Empty /\ state = KindOf(WireMethod))
    /\ (reader # <<>>) => (reader = <<KindOf(WireMethod)>> /\ reader # <<Empty>>)

C10_Witness ==
    /\ reader = <<StartedHead>>
    /\ Len(sent) > start
    /\ out_buf # <<>>
    /\ message.st = "Headers"

FlushStep == \E k \in Drains, err \in BOOLEAN : flush(k, err)

(***************************************************************************)
(* C11 as claimed: flush() returns the number of bytes still pending in    *)
(* the Output Buffer after its drain attempt.                              *)
(***************************************************************************)
C11_FlushReturnsBytesPending ==
    [][ FlushStep => last'.val = <<Len(out_buf')>> ]_vars

(***************************************************************************)
(* C11 amended: flush() performs one drain attempt, which moves some bytes *)
(* from the front of the Output Buffer to the socket, and returns at once  *)
(* with either Ok(()) or the I/O error of the attempt, never a number; the *)
(* number of bytes still pending is what bytes_buffered() returns, and     *)
(* bytes_buffered() drains nothing.                                        *)
(***************************************************************************)
C11_FlushDrainsOnceAndReturnsNoCount ==
    [][ /\ FlushStep =>
              /\ \E k \in 0..Len(out_buf) :
                    /\ sent' = sent \o SubSeq(out_buf, 1, k)
                    /\ out_buf' = SubSeq(out_buf, k + 1, Len(out_buf))
              /\ last'.res \in {"Ok", "IoError"}
              /\ last'.val = NoValue
              /\ encoder' = "Live" /\ ~panicked'
              /\ message' = message
        /\ bytes_buffered =>
              /\ last' = Returned("Ok", <<Len(out_buf)>>)
              /\ out_buf' = out_buf /\ sent' = sent ]_vars

C11_Witness ==
    /\ last = Returned("Ok", <<1>>)
    /\ Len(out_buf) = 1
    /\ Len(sent) > start
    /\ encoder = "Live"
    /\ waitflush.holds = "None"

(***************************************************************************)
(* What a receiver decodes from the bytes of the request: the request      *)
(* line, the header fields in their order, and the body by the framing the *)
(* header fields declare.                                                  *)
(***************************************************************************)
HasAt(pat, seq, i) == i + Len(pat) - 1 <= Len(seq) /\ MatchAt(pat, seq, i)

\* first position from `from` on at which pat occurs in seq, or 0
Find(pat, seq, from) ==
    LET hits == { i \in from..(Len(seq) - Len(pat) + 1) : MatchAt(pat, seq, i) }
    IN IF hits = {} THEN 0 ELSE CHOOSE i \in hits : \A j \in hits : i <= j

DigitValue(c) == (CHOOSE i \in 1..Len(Digits) : Digits[i] = c) - 1

RECURSIVE ParseRadix(_, _)
ParseRadix(text, base) ==
    IF text = <<>> THEN 0
    ELSE ParseRadix(SubSeq(text, 1, Len(text) - 1), base) * base
            + DigitValue(text[Len(text)])

ParseVersion(text) == IF text = <<"H","T","T","P","/","1",".","1">> THEN "Http11" ELSE "?"

DecodedLine(wire) ==
    LET e == Find(CRLF, wire, 1)
        line == SubSeq(wire, 1, e - 1)
        s1 == Find(SP, line, 1)
        s2 == Find(SP, line, s1 + 1)
    IN IF e = 0 \/ s1 = 0 \/ s2 = 0 THEN <<>>
       ELSE << SubSeq(line, 1, s1 - 1), SubSeq(line, s1 + 1, s2 - 1),
               ParseVersion(SubSeq(line, s2 + 1, Len(line))) >>

Field(kind, name, value, n) == [kind |-> kind, name |-> name, value |-> value, n |-> n]
HeaderField(name, value) == Field("header", name, value, 0)
LengthField(n) == Field("length", <<>>, <<>>, n)
ChunkedField == Field("chunked", <<>>, <<>>, 0)

DecodeField(line) ==
    LET c == Find(<<":", " ">>, line, 1)
        name == SubSeq(line, 1, c - 1)
        value == SubSeq(line, c + 2, Len(line))
    IN IF eq_ignore_ascii_case(name, <<"c","o","n","t","e","n","t","-","l","e","n","g","t","h">>)
       THEN LengthField(ParseRadix(value, 10))
       ELSE IF /\ eq_ignore_ascii_case(name, <<"t","r","a","n","s","f","e","r","-","e","n","c","o","d","i","n","g">>)
               /\ eq_ignore_ascii_case(value, <<"c","h","u","n","k","e","d">>)
       THEN ChunkedField
       ELSE HeaderField(name, value)

RECURSIVE DecodeFields(_, _)
DecodeFields(wire, from) ==
    LET e == Find(CRLF, wire, from)
    IN IF e = 0 \/ e = from THEN <<>>
       ELSE <<DecodeField(SubSeq(wire, from, e - 1))>> \o DecodeFields(wire, e + 2)

DecodedHeaders(wire) ==
    LET e == Find(CRLF, wire, 1)
    IN IF e = 0 THEN <<>> ELSE DecodeFields(wire, e + 2)

\* position of the first byte after the blank line, 0 while there is none
BodyStart(wire) ==
    LET i == Find(CRLF \o CRLF, wire, 1)
    IN IF i = 0 THEN 0 ELSE i + 4

Framing(wire) ==
    LET f == SelectSeq(DecodedHeaders(wire), LAMBDA x : x.kind # "header")
    IN IF f = <<>> THEN Field("none", <<>>, <<>>, 0) ELSE f[1]

RECURSIVE DecodeChunks(_, _)
DecodeChunks(wire, from) ==
    LET e == Find(CRLF, wire, from)
        size == ParseRadix(SubSeq(wire, from, e - 1), 16)
    IN IF e = 0 \/ size = 0 THEN <<>>
       ELSE SubSeq(wire, e + 2, e + 1 + size) \o DecodeChunks(wire, e + size + 4)

\* position after the last chunk, 0 if the chunks are malformed or unfinished
RECURSIVE ChunksEnd(_, _)
ChunksEnd(wire, from) ==
    LET e == Find(CRLF, wire, from)
        size == ParseRadix(SubSeq(wire, from, e - 1), 16)
    IN IF e = 0 \/ e = from THEN 0
       ELSE IF size = 0 THEN (IF HasAt(CRLF, wire, e + 2) THEN e + 4 ELSE 0)
       ELSE IF HasAt(CRLF, wire, e + 2 + size) THEN ChunksEnd(wire, e + size + 4)
       ELSE 0

DecodedBody(wire) ==
    LET b == BodyStart(wire)
    IN IF b = 0 THEN <<>>
       ELSE IF Framing(wire).kind = "chunked" THEN DecodeChunks(wire, b)
       ELSE SubSeq(wire, b, Len(wire))

\* the bytes are one whole request, with nothing after it
DecodedComplete(wire) ==
    LET b == BodyStart(wire)
        f == Framing(wire)
    IN /\ DecodedLine(wire) # <<>>
       /\ b # 0
       /\ CASE f.kind = "chunked" -> ChunksEnd(wire, b) = Len(wire) + 1
            [] f.kind = "length" -> Len(wire) - b + 1 = f.n
            [] OTHER -> b = Len(wire) + 1

HexDigit == <<"1","2","3","4","5","6","7","8","9","a","b","c","d","e","f">>
ChunkOf(b) == <<HexDigit[Len(b)]>> \o <<"\r","\n">> \o b \o <<"\r","\n">>
ScenarioBody ==
    <<"3","\r","\n","a","b","c","\r","\n","2","\r","\n","d","e","\r","\n",
      "0","\r","\n","\r","\n">>

C13_ChunkFormat ==
    /\ [][ (Callable /\ message.st = "Body" /\ message.body = "chunked") =>
              /\ \A b \in BodyData :
                    BodyStep(b) =>
                        /\ out_buf' = out_buf \o ChunkOf(b)
                        /\ last'.res = "Ok"
                        /\ sent' = sent
              /\ done =>
                    /\ out_buf' = out_buf \o <<"0","\r","\n","\r","\n">>
                    /\ last'.res = "Ok"
                    /\ sent' = sent ]_vars
    /\ []( ( /\ encoder_done
             /\ message.body = "chunked"
             /\ message.written = Len(ScenarioChunks[1]) + Len(ScenarioChunks[2]) )
           => WireBody = ScenarioBody )

C13_Witness ==
    /\ encoder_done
    /\ message.body = "chunked"
    /\ WireBody = ScenarioBody
    /\ ~panicked

IsPrefix(a, b) == Len(a) <= Len(b) /\ SubSeq(b, 1, Len(a)) = a

(***************************************************************************)
(* C14: the Output Buffer is append-only.  A step that sends nothing       *)
(* leaves the bytes buffered before it as a prefix of the buffer; a step   *)
(* that sends bytes takes them from the front of the buffer and appends    *)
(* nothing; so the bytes sent are always the first bytes of all the bytes  *)
(* appended, in the order they were appended.                              *)
(***************************************************************************)
C14_AppendOnly ==
    [][ /\ IsPrefix(sent, sent')
        /\ IsPrefix(Stream, Stream')
        /\ IF sent' = sent
           THEN IsPrefix(out_buf, out_buf')
           ELSE /\ Stream' = Stream
                /\ IsPrefix(SubSeq(sent', Len(sent) + 1, Len(sent')), out_buf) ]_vars

\* bytes were appended behind a byte left over by a drain attempt
C14_Witness ==
    /\ Len(sent) > start
    /\ Len(out_buf) > MaxRest
    /\ message.st = "Done"
    /\ message.written > 0

RequestLineStep == \E m \in Methods, p \in Paths, v \in Versions : request_line(m, p, v)

(***************************************************************************)
(* C15: a request_line on an Encoder whose request line is already written *)
(* is fatal: the task panics, no byte is appended and the In-flight        *)
(* Request Kind is not written again.                                      *)
(***************************************************************************)
C15_SecondRequestLineFatal ==
    [][ (message.st # "RequestStart" /\ RequestLineStep) =>
            /\ panicked'
            /\ last'.res = "Panic"
            /\ out_buf' = out_buf /\ sent' = sent
            /\ state' = state
            /\ message' = message ]_vars

C15_Witness ==
    /\ panicked
    /\ last.res = "Panic"
    /\ message.st = "Headers"
    /\ state = StartedNormal
    /\ Occurrences(<<"H","T","T","P","/","1",".","1">>, WireRequest) = 1
    /\ headers = 0 /\ message.body = "none"

(***************************************************************************)
(* C16: write_body and write are fatal and append nothing while the        *)
(* headers are still open and after done_headers of a request that         *)
(* declared neither a length nor chunked encoding.                         *)
(***************************************************************************)
C16_BodyNeedsFraming ==
    [][ (message.st = "Headers" \/ (message.st = "Body" /\ message.body = "none")) =>
            \A d \in BodyData :
                BodyStep(d) =>
                    /\ panicked'
                    /\ last'.res = "Panic"
                    /\ out_buf' = out_buf /\ sent' = sent
                    /\ message' = message ]_vars

\* the panic of a body write after the done_headers of a HEAD request
C16_Witness ==
    /\ panicked
    /\ last.res = "Panic"
    /\ message.st = "Body" /\ message.body = "none"
    /\ WireMethod = <<"H","E","A","D">>
    /\ WireBody = <<>>

C18_ZeroWatermarkAlwaysNotReady ==
    [][ (waitflush.holds = "Some" /\ waitflush.watermark = 0 /\ PollStep)
        => (last'.res = "NotReady" /\ encoder' = "Moved") ]_vars

(***************************************************************************)
(* C18 amended: a WaitFlush with watermark 0 never yields the Encoder.     *)
(* Every resumption of it whose drain attempt reports no I/O error returns *)
(* NotReady, also when the Output Buffer is empty; a resumption whose      *)
(* drain attempt fails returns the I/O error; after either the WaitFlush   *)
(* still holds the Encoder.                                                *)
(***************************************************************************)
C18_ZeroWatermarkNeverYields ==
    [][ (waitflush.holds = "Some" /\ waitflush.watermark = 0) =>
            /\ waitflush' = waitflush
            /\ encoder' = "Moved"
            /\ PollStep => last'.res \in {"NotReady", "IoError"}
            /\ \A k \in Drains : poll(k, FALSE) => last'.res = "NotReady" ]_vars

C18_Witness ==
    /\ waitflush = [holds |-> "Some", watermark |-> 0]
    /\ out_buf = <<>>
    /\ last.res = "NotReady"
    /\ Len(sent) > start
    /\ encoder = "Moved"

(***************************************************************************)
(* The encoder on a socket that keeps accepting bytes: no drain attempt    *)
(* ends in an I/O error, and a pending WaitFlush is resumed again and      *)
(* again with a drain attempt that takes bytes whenever there are any.     *)
(***************************************************************************)
NextLive ==
    \/ \E m \in Methods, p \in Paths, v \in Versions : request_line(m, p, v)
    \/ \E h \in HeaderInputs : add_header(h[1], h[2])
    \/ \E h \in FormatInputs : format_header(h[1], h[2])
    \/ \E n \in Lengths : add_length(n)
    \/ add_chunked
    \/ done_headers
    \/ \E d \in BodyData : write_body(d)
    \/ \E d \in BodyData : write(d)
    \/ io_flush
    \/ done
    \/ \E k \in Drains : flush(k, FALSE)
    \/ bytes_buffered
    \/ \E w \in Watermarks : wait_flush(w)
    \/ \E k \in Drains : poll(k, FALSE)
    \/ \E k \in Drains : driver_flush(k)
    \/ reader_kind

\* a resumption of the pending WaitFlush on a writable socket
PollResume ==
    /\ waitflush.holds = "Some"
    /\ \E k \in Drains : (k > 0 \/ out_buf = <<>>) /\ poll(k, FALSE)

SpecLive == Init /\ [][NextLive]_vars /\ WF_vars(PollResume)

(***************************************************************************)
(* C19: on a socket that keeps accepting bytes, a WaitFlush with a         *)
(* watermark of at least 1 that is resumed after every wake-up eventually  *)
(* yields the Encoder; the message state does not change from the call of  *)
(* wait_flush to the yield, the WaitFlush is empty once it has yielded,    *)
(* and a further resumption is fatal and yields nothing.                   *)
(***************************************************************************)
C19_WaitFlushEventuallyYields ==
    /\ (waitflush.holds = "Some" /\ waitflush.watermark >= 1)
          ~> (waitflush.holds = "Taken" /\ encoder = "Live" /\ last.res = "Ready")
    /\ [][ /\ (waitflush.holds = "Some" \/ waitflush'.holds = "Some")
              => message' = message
           /\ (waitflush.holds = "Some" /\ encoder' = "Live")
              => (waitflush'.holds = "Taken" /\ Len(out_buf') < waitflush.watermark)
           /\ (waitflush.holds = "Taken" /\ PollStep)
              => (panicked' /\ encoder' = encoder /\ waitflush' = waitflush) ]_vars

\* the Encoder is back after a wait that had to drain the request's bytes
C19_Witness ==
    /\ waitflush.holds = "Taken"
    /\ encoder = "Live"
    /\ last.res = "Ready"
    /\ out_buf = <<>>
    /\ Len(sent) > start + 1
    /\ message.st = "Body"

=============================================================================
